---- MODULE Spec2Model ----
(***************************************************************************)
(* Model of src/app.py: the /conversation router with its password-reset   *)
(* flow, and the /history endpoints gated on the cosmos_db_ready event.    *)
(*                                                                         *)
(* src/app.py defines conversation_internal twice (lines 85 and 325) and   *)
(* conversation twice (lines 248 and 360).  A Python module binds a name   *)
(* to its last definition and callers look the name up when they call, so  *)
(* the definitions at lines 325 and 360 are the ones that run; they are    *)
(* the ones modelled here.                                                 *)
(***************************************************************************)
EXTENDS Integers, Sequences, FiniteSets, TLC

(***************************************************************************)
(* Bounds of the model.                                                    *)
(***************************************************************************)
MaxMsgs == 2
MaxTokens == 3
MaxSeed == 2

(***************************************************************************)
(* Python values.  A string is a sequence of tokens; None is its own tag.  *)
(***************************************************************************)
PyNone == [t |-> "None", v |-> <<>>]
PyStr(s) == [t |-> "str", v |-> s]
Unbound == [t |-> "unbound", v |-> <<>>]

\* Text is cut into tokens: the phrases the program searches for, a user
\* name, and white space.
Tokens == {"reset my password", "RESET MY PASSWORD", "weather in", "Username:", "alice", " "}

Users == {"alice", "bob"}
NoPrincipal == "no-principal"

RECURSIVE SeqsUpTo(_, _)
SeqsUpTo(S, n) ==
  IF n = 0 THEN {<<>>}
  ELSE LET shorter == SeqsUpTo(S, n - 1)
       IN shorter \cup {Append(s, x) : s \in {q \in shorter : Len(q) = n - 1}, x \in S}

\* the contents a message may have with at most n tokens of text: a string, or None
ContentsUpTo(n) == {PyStr(s) : s \in SeqsUpTo(Tokens, n)} \cup {PyNone}

\* the tokens of text in a message list
RECURSIVE TotalTokens(_)
TotalTokens(messages) ==
  IF messages = <<>> THEN 0 ELSE Len(Head(messages).content.v) + TotalTokens(Tail(messages))

\* str.lower() on one token
LowerTok(tok) ==
  CASE tok = "RESET MY PASSWORD" -> "reset my password"
    [] tok = "Username:" -> "username:"
    [] OTHER -> tok

\* str.lower()
lower(s) == [i \in DOMAIN s |-> LowerTok(s[i])]

\* phrase in s
Contains(s, phrase) == \E i \in DOMAIN s : s[i] = phrase

\* s.split(sep)[1]: the text between the first and the second occurrence of sep
SplitSecond(s, sep) ==
  LET first == CHOOSE i \in DOMAIN s : s[i] = sep /\ \A j \in 1..(i - 1) : s[j] # sep
      later == {j \in (first + 1)..Len(s) : s[j] = sep}
      stop == IF later = {} THEN Len(s) + 1 ELSE CHOOSE j \in later : \A k \in later : j <= k
  IN SubSeq(s, first + 1, stop - 1)

\* str.strip()
RECURSIVE strip(_)
strip(s) ==
  IF s = <<>> THEN s
  ELSE IF Head(s) = " " THEN strip(Tail(s))
  ELSE IF s[Len(s)] = " " THEN strip(SubSeq(s, 1, Len(s) - 1))
  ELSE s

\* Truthiness of a Python value: None and "" are false.
TruthyNotNone(val) == val.t = "str"
Truthy(val) == val.t = "str" /\ val.v # <<>>

(***************************************************************************)
(* extract_username: scan the messages in reverse for the "Username:"      *)
(* marker.  Reading message['content'] of a None content raises TypeError  *)
(* at the `in` test; the scan stops at the first message that matches.     *)
(***************************************************************************)
RECURSIVE extract_username_from(_, _)
extract_username_from(messages, i) ==
  IF i = 0 THEN [raised |-> FALSE, value |-> PyNone]
  ELSE IF messages[i].content.t # "str" THEN [raised |-> TRUE, value |-> PyNone]
  ELSE IF Contains(messages[i].content.v, "Username:")
       THEN [raised |-> FALSE, value |-> PyStr(strip(SplitSecond(messages[i].content.v, "Username:")))]
  ELSE extract_username_from(messages, i - 1)

extract_username(messages) == extract_username_from(messages, Len(messages))

\* get_authenticated_user_details(request.headers)
get_authenticated_user_details(headers) ==
  IF headers = NoPrincipal THEN PyNone
  ELSE [t |-> "dict", v |-> <<>>, user_principal_id |-> PyStr(<<headers>>)]

(***************************************************************************)
(* reset_user_password draws 16 characters from letters, digits and        *)
(* punctuation.                                                            *)
(***************************************************************************)
PASSWORD_K == 16
Alphabet == <<"a", "Z", "7", "#">>
PasswordsOfLength(k) == {[i \in 1..k |-> Alphabet[((i * s) % Len(Alphabet)) + 1]] : s \in 0..MaxSeed}
\* random.choices(..., k=16), line 216
PasswordsShort == PasswordsOfLength(PASSWORD_K - 1)
Passwords == PasswordsOfLength(PASSWORD_K)
NoPassword == <<>>

\* statuses the directory service may answer a patch with
HTTP_NO_CONTENT == 204
PatchStatuses == {204, 200, 500}

(***************************************************************************)
(* Response texts of the reset flow.                                       *)
(***************************************************************************)
Assistant(text, password) ==
  [status |-> 200, role |-> "assistant", text |-> text, password |-> password, body |-> <<>>]
ErrorResponse(status, text) ==
  [status |-> status, role |-> "error", text |-> text, password |-> NoPassword, body |-> <<>>]
ChatResponse(body) ==
  [status |-> 200, role |-> "chat", text |-> "chat", password |-> NoPassword, body |-> body]
Propagated(exc) ==
  [status |-> 0, role |-> "unhandled", text |-> exc, password |-> NoPassword, body |-> <<>>]
NoResponse == [status |-> 0, role |-> "none", text |-> "", password |-> NoPassword, body |-> <<>>]

NoRequest == [is_json |-> FALSE, headers |-> NoPrincipal, body |-> [messages |-> <<>>]]

VARIABLES
  cpc,           \* position of the /conversation handler
  request,       \* the request being served: is_json, headers, body
  username,      \* local `username` of conversation(), Unbound until assigned
  new_password,  \* local `new_password` of reset_user_password()
  calls,         \* the adapter calls the handler has made, in order
  cresp,         \* the response returned (NoResponse while pending)
  init_pc,                     \* position of create_app.init(), the before_serving hook
  init_error,                  \* TRUE once init() has re-raised the initialization error
  cosmos_db_ready,             \* the asyncio.Event of line 47: TRUE once set
  cosmos_conversation_client,  \* app.cosmos_conversation_client
  store,                       \* the documents of the history store
  hreq,                        \* the history requests being served, by slot
  uuids,                       \* how many fresh ids have been drawn
  lastCall                     \* the latest call on the history store

cvars == <<cpc, request, username, new_password, calls, cresp>>
hvars == <<init_pc, init_error, cosmos_db_ready, cosmos_conversation_client, store, hreq, uuids, lastCall>>
vars == <<cpc, request, username, new_password, calls, cresp,
          init_pc, init_error, cosmos_db_ready, cosmos_conversation_client, store, hreq, uuids, lastCall>>

\* One adapter call: what was called, with which arguments, and how it ended.
Call(op, arg) ==
  [op |-> op, username |-> arg, password |-> NoPassword, body |-> [messages |-> <<>>],
   raised |-> FALSE, status |-> 0]

ConvInit ==
  /\ cpc = "idle"
  /\ request = NoRequest
  /\ username = Unbound
  /\ new_password = NoPassword
  /\ calls = <<>>
  /\ cresp = NoResponse


\* The client's chat session grows by one message: at most MaxMsgs messages
\* holding at most MaxTokens tokens of text in all.
ConvCompose ==
  /\ cpc = "idle"
  /\ Len(request.body.messages) < MaxMsgs
  /\ \E c \in ContentsUpTo(MaxTokens - TotalTokens(request.body.messages)) :
       request' = [request EXCEPT !.body.messages = Append(@, [role |-> "user", content |-> c])]
  /\ UNCHANGED <<cpc, username, new_password, calls, cresp>>
  /\ UNCHANGED hvars

\* A POST /conversation arrives with the session's messages.
ConvReceive ==
  /\ cpc = "idle"
  /\ \E h \in Users \cup {NoPrincipal}, j \in BOOLEAN :
       /\ (~j => request.body.messages = <<>>)
       /\ request' = [request EXCEPT !.is_json = j, !.headers = h]
  /\ cpc' = "start"
  /\ UNCHANGED <<username, new_password, calls, cresp>>
  /\ UNCHANGED hvars

LastContent(req) == req.body.messages[Len(req.body.messages)].content

\* 'reset my password' in user_message.lower()
IsReset(req) == Contains(lower(LastContent(req).v), "reset my password")
IsWeather(req) == Contains(lower(LastContent(req).v), "weather in")

\* conversation(), lines 362-369
conversation ==
  /\ cpc = "start"
  /\ IF ~request.is_json
       THEN cpc' = "done" /\ cresp' = ErrorResponse(415, "request must be json")
     ELSE IF request.body.messages = <<>>
       THEN cpc' = "done" /\ cresp' = Propagated("IndexError")
     ELSE IF LastContent(request).t # "str"
       THEN cpc' = "done" /\ cresp' = Propagated("AttributeError")
     ELSE IF IsReset(request)
       THEN cpc' = "extract" /\ cresp' = cresp
     ELSE cpc' = "internal" /\ cresp' = cresp
  /\ UNCHANGED <<request, username, new_password, calls>>
  /\ UNCHANGED hvars

\* `not authenticated_user or authenticated_user.get("user_principal_id") != username`, line 383
AuthDeclinesNoCompare(authenticated_user, name) == authenticated_user = PyNone
AuthDeclines(authenticated_user, name) ==
  \/ authenticated_user = PyNone
  \/ authenticated_user.user_principal_id # name

\* conversation(), lines 370-379: resolve the username
conv_extract ==
  /\ cpc = "extract"
  /\ LET r == extract_username(request.body.messages)
     IN /\ calls' = Append(calls, [Call("extract_username", PyNone) EXCEPT !.raised = r.raised])
        /\ IF r.raised
             THEN cpc' = "except" /\ username' = username /\ cresp' = cresp
           ELSE /\ username' = r.value
                /\ IF ~Truthy(r.value)
                     THEN cpc' = "done" /\ cresp' = Assistant("clarify", NoPassword)
                   ELSE cpc' = "auth" /\ cresp' = cresp
  /\ UNCHANGED <<request, new_password>>
  /\ UNCHANGED hvars

\* conversation(), lines 381-388: compare with the authenticated principal
conv_auth ==
  /\ cpc = "auth"
  /\ calls' = Append(calls, Call("get_authenticated_user_details", PyNone))
  /\ IF AuthDeclines(get_authenticated_user_details(request.headers), username)
       THEN cpc' = "done" /\ cresp' = Assistant("decline", NoPassword)
     ELSE cpc' = "reset" /\ cresp' = cresp
  /\ UNCHANGED <<request, username, new_password>>
  /\ UNCHANGED hvars

\* reset_user_password(), lines 212-224: directory client and new password
reset_init_graph ==
  /\ cpc = "reset"
  /\ \E ok \in BOOLEAN :
       IF ok
         THEN /\ \E p \in Passwords : new_password' = p
              /\ cpc' = "patch"
              /\ calls' = Append(calls, Call("init_graph_client", username))
         ELSE /\ new_password' = new_password
              /\ cpc' = "except"
              /\ calls' = Append(calls, [Call("init_graph_client", username) EXCEPT !.raised = TRUE])
  /\ UNCHANGED <<request, username, cresp>>
  /\ UNCHANGED hvars

\* `response.status_code == 204`, line 229
PatchSucceededAnyStatus(raised, status) == ~raised
PatchSucceeded(raised, status) == ~raised /\ status = HTTP_NO_CONTENT

\* reset_user_password(), lines 226-237: the directory patch
reset_patch ==
  /\ cpc = "patch"
  /\ \E raised \in BOOLEAN, st \in PatchStatuses :
       /\ (raised => st = 500)
       /\ calls' = Append(calls, [Call("patch", username) EXCEPT
                                   !.password = new_password, !.raised = raised, !.status = st])
       /\ cpc' = IF PatchSucceeded(raised, st) THEN "log_ok" ELSE "except"
  /\ UNCHANGED <<request, username, new_password, cresp>>
  /\ UNCHANGED hvars

\* conversation(), line 394
conv_log_ok ==
  /\ cpc = "log_ok"
  /\ calls' = Append(calls, Call("log_password_reset", username))
  /\ cpc' = "respond_ok"
  /\ UNCHANGED <<request, username, new_password, cresp>>
  /\ UNCHANGED hvars

\* conversation(), lines 397-401
conv_respond_ok ==
  /\ cpc = "respond_ok"
  /\ cresp' = Assistant("success", new_password)
  /\ cpc' = "done"
  /\ UNCHANGED <<request, username, new_password, calls>>
  /\ UNCHANGED hvars

\* conversation(), lines 402-405: the failure audit, if `username` is bound
conv_except ==
  /\ cpc = "except"
  /\ calls' = IF username # Unbound
                THEN Append(calls, Call("log_failed_password_reset_attempt", username))
              ELSE calls
  /\ cpc' = "respond_failed"
  /\ UNCHANGED <<request, username, new_password, cresp>>
  /\ UNCHANGED hvars

\* conversation(), lines 406-410
conv_respond_failed ==
  /\ cpc = "respond_failed"
  /\ cresp' = Assistant("apology", NoPassword)
  /\ cpc' = "done"
  /\ UNCHANGED <<request, username, new_password, calls>>
  /\ UNCHANGED hvars

\* status codes an upstream completion error may carry
UpstreamStatuses == {429}

\* the body handed to conversation_internal, line 413
ForwardedBodyLastOnly(request_json) ==
  [messages |-> SubSeq(request_json.messages, Len(request_json.messages), Len(request_json.messages))]
ForwardedBody(request_json) == request_json

\* conversation_internal(), lines 325-342 (the binding in force)
conversation_internal ==
  /\ cpc = "internal"
  /\ \E stream \in BOOLEAN, outcome \in {"ok", "error", "status_error"}, code \in UpstreamStatuses :
       /\ calls' = Append(calls,
                      [Call(IF stream THEN "stream_chat_request" ELSE "complete_chat_request", PyNone)
                         EXCEPT !.body = ForwardedBody(request.body), !.raised = (outcome # "ok")])
       /\ cresp' = IF outcome = "ok" THEN ChatResponse(ForwardedBody(request.body))
                   ELSE IF outcome = "error" THEN ErrorResponse(500, "str(ex)")
                   ELSE ErrorResponse(code, "str(ex)")
  /\ cpc' = "done"
  /\ UNCHANGED <<request, username, new_password>>
  /\ UNCHANGED hvars


(***************************************************************************)
(* The history store.  Every document carries the principal id of its      *)
(* owner and every operation of the store client filters by the user id    *)
(* it is given; a document is identified by its owner and its id.          *)
(***************************************************************************)
NoId == ""
ConvRec(id, user_id, title) ==
  [type |-> "conversation", id |-> id, userId |-> user_id, conversationId |-> id,
   role |-> "", text |-> title, feedback |-> ""]
MsgRec(id, user_id, conversation_id, input_message) ==
  [type |-> "message", id |-> id, userId |-> user_id, conversationId |-> conversation_id,
   role |-> input_message.role, text |-> input_message.content, feedback |-> ""]

Upsert(st, rec) == {r \in st : ~(r.userId = rec.userId /\ r.id = rec.id)} \cup {rec}

cosmos_get_conversations(st, user_id) ==
  {r \in st : r.type = "conversation" /\ r.userId = user_id}
cosmos_get_conversation(st, user_id, conversation_id) ==
  {r \in st : r.type = "conversation" /\ r.userId = user_id /\ r.id = conversation_id}
cosmos_get_messages(st, user_id, conversation_id) ==
  {r \in st : r.type = "message" /\ r.userId = user_id /\ r.conversationId = conversation_id}
cosmos_delete_messages(st, conversation_id, user_id) == st \ cosmos_get_messages(st, user_id, conversation_id)
cosmos_delete_conversation(st, user_id, conversation_id) == st \ cosmos_get_conversation(st, user_id, conversation_id)
cosmos_create_conversation(st, id, user_id, title) == Upsert(st, ConvRec(id, user_id, title))
cosmos_upsert_conversation(st, conv) == Upsert(st, conv)
\* create_message answers "Conversation not found" when the user has no such conversation
ConversationFound(st, user_id, conversation_id) == cosmos_get_conversation(st, user_id, conversation_id) # {}
cosmos_create_message(st, uuid, conversation_id, user_id, input_message) ==
  IF ConversationFound(st, user_id, conversation_id)
    THEN Upsert(st, MsgRec(uuid, user_id, conversation_id, input_message))
  ELSE st
MessageOf(st, user_id, message_id) ==
  {r \in st : r.type = "message" /\ r.userId = user_id /\ r.id = message_id}
cosmos_update_message_feedback(st, user_id, message_id, feedback) ==
  (st \ MessageOf(st, user_id, message_id))
    \cup {[r EXCEPT !.feedback = feedback] : r \in MessageOf(st, user_id, message_id)}

\* str(uuid.uuid4()): the n-th fresh id
FreshId(n) == "u" \o ToString(n)

(***************************************************************************)
(* History requests.                                                       *)
(***************************************************************************)
Slots == {"r1", "r2"}
ReqConvIds == {NoId, "c1", "c2"}
UserMsg == [id |-> "mu", role |-> "user", content |-> "question"]
BotMsg == [id |-> "m1", role |-> "assistant", content |-> "answer"]
ToolMsg == [id |-> "mt", role |-> "tool", content |-> "citations"]
HistMessageLists == {<<>>, <<UserMsg>>, <<BotMsg>>, <<UserMsg, BotMsg>>, <<ToolMsg, BotMsg>>}

\* the documents the store holds when the process starts
SeedStore ==
  {ConvRec("c1", "alice", "first"), MsgRec("m1", "alice", "c1", UserMsg),
   ConvRec("c2", "bob", "second"), MsgRec("m2", "bob", "c2", UserMsg)}
InitStores == {SeedStore, {}}

NoHResp == [status |-> 0, text |-> "", data |-> {}]
NoCall == [slot |-> "", op |-> "", user_id |-> "", touched |-> {}]
StoreCall(s, op, user_id, touched) == [slot |-> s, op |-> op, user_id |-> user_id, touched |-> touched]

BaseReq(op, user) ==
  [op |-> op, user |-> user, conversation_id |-> NoId, messages |-> <<>>, title |-> "",
   message_id |-> "", message_feedback |-> "",
   pc |-> "wait", resp |-> NoHResp, conversation |-> {}, conversations |-> {}, history_title |-> ""]
FreeSlot == [BaseReq("", "") EXCEPT !.pc = "free"]

HistRequests ==
  {[BaseReq(op, u) EXCEPT !.conversation_id = c, !.messages = m] :
     op \in {"generate", "update"}, u \in Users, c \in ReqConvIds, m \in HistMessageLists}
  \cup {[BaseReq("message_feedback", u) EXCEPT !.message_id = m, !.message_feedback = f] :
     u \in Users, m \in {"", "m1", "m2"}, f \in {"", "positive"}}
  \cup {[BaseReq(op, u) EXCEPT !.conversation_id = c] :
     op \in {"delete", "clear", "read"}, u \in Users, c \in ReqConvIds}
  \cup {[BaseReq("rename", u) EXCEPT !.conversation_id = c, !.title = t] :
     u \in Users, c \in ReqConvIds, t \in {"", "renamed"}}
  \cup {BaseReq(op, u) : op \in {"delete_all", "list", "ensure"}, u \in Users}

HistIdle ==
  /\ init_pc = "init"
  /\ init_error = FALSE
  /\ cosmos_db_ready = FALSE
  /\ cosmos_conversation_client = "unset"
  /\ store = SeedStore
  /\ hreq = [s \in Slots |-> FreeSlot]
  /\ uuids = 0
  /\ lastCall = NoCall

HistInit ==
  /\ init_pc = "init"
  /\ init_error = FALSE
  /\ cosmos_db_ready = FALSE
  /\ cosmos_conversation_client = "unset"
  /\ store \in InitStores
  /\ hreq = [s \in Slots |-> FreeSlot]
  /\ uuids = 0
  /\ lastCall = NoCall

Init == ConvInit /\ HistIdle
InitHist == ConvInit /\ HistInit

(***************************************************************************)
(* create_app.init(), lines 835-843                                        *)
(***************************************************************************)
\* cosmos_db_ready.set() is reached only when init_cosmosdb_client() returned
ReadyAfterInitAlways(outcome) == TRUE
ReadyAfterInit(outcome) == outcome # "raise"

\* line 838, and lines 840-843 when it raises
init_client ==
  /\ init_pc = "init"
  /\ \E outcome \in {"client", "None", "raise"} :
       /\ cosmos_conversation_client' = IF outcome = "raise" THEN "None" ELSE outcome
       /\ init_pc' = IF ReadyAfterInit(outcome) THEN "assigned" ELSE "failed"
       /\ init_error' = (outcome = "raise")
  /\ UNCHANGED <<cosmos_db_ready, store, hreq, uuids, lastCall>>
  /\ UNCHANGED cvars

\* line 839
init_set_ready ==
  /\ init_pc = "assigned"
  /\ cosmos_db_ready' = TRUE
  /\ init_pc' = "ready"
  /\ UNCHANGED <<init_error, cosmos_conversation_client, store, hreq, uuids, lastCall>>
  /\ UNCHANGED cvars

\* A request to a /history endpoint arrives.
HReceive(s) ==
  /\ hreq[s].pc = "free"
  /\ \E r \in HistRequests : hreq' = [hreq EXCEPT ![s] = r]
  /\ UNCHANGED <<init_pc, init_error, cosmos_db_ready, cosmos_conversation_client, store, uuids, lastCall>>
  /\ UNCHANGED cvars

\* `await cosmos_db_ready.wait()`, the first statement of every history handler
GateOpenAlways == TRUE
GateOpen == cosmos_db_ready

await_cosmos_db_ready(s) ==
  /\ hreq[s].pc = "wait"
  /\ GateOpen
  /\ hreq' = [hreq EXCEPT ![s].pc = "start"]
  /\ UNCHANGED <<init_pc, init_error, cosmos_db_ready, cosmos_conversation_client, store, uuids, lastCall>>
  /\ UNCHANGED cvars

\* user_id = authenticated_user["user_principal_id"]
user_id_of_owner(r) ==
  IF \E c \in store : c.type = "conversation" /\ c.id = r.conversation_id
    THEN (CHOOSE c \in store : c.type = "conversation" /\ c.id = r.conversation_id).userId
  ELSE r.user
user_id(r) == r.user

Respond(r, status, text, data) ==
  [r EXCEPT !.pc = "done", !.resp = [status |-> status, text |-> text, data |-> data]]
NotConfigured == cosmos_conversation_client = "None"

SetReq(s, r) == hreq' = [hreq EXCEPT ![s] = r]
NoStoreCall == UNCHANGED <<store, uuids, lastCall>>
HFrame == UNCHANGED <<init_pc, init_error, cosmos_db_ready, cosmos_conversation_client>> /\ UNCHANGED cvars
LastMsg(r) == r.messages[Len(r.messages)]

\* generate_title(), lines 809-828: the completion's summary, or on failure
\* the content of conversation_messages[-2], which raises IndexError when
\* there are fewer than two messages
generate_title(conversation_messages, completion_ok) ==
  IF completion_ok THEN [raised |-> FALSE, value |-> "summary"]
  ELSE IF Len(conversation_messages) >= 2
    THEN [raised |-> FALSE, value |-> conversation_messages[Len(conversation_messages) - 1].content]
  ELSE [raised |-> TRUE, value |-> ""]

\* add_conversation(), lines 431-450
add_conversation(s) ==
  LET r == hreq[s] IN
  /\ r.op = "generate" /\ r.pc = "start"
  /\ IF NotConfigured
       THEN SetReq(s, Respond(r, 500, "CosmosDB is not configured or not working", {})) /\ NoStoreCall
     ELSE IF r.conversation_id = NoId
       THEN \E completion_ok \in BOOLEAN :
              LET t == generate_title(r.messages, completion_ok)
                  id == FreshId(uuids + 1)
              IN IF t.raised
                   THEN SetReq(s, Respond(r, 500, "list index out of range", {})) /\ NoStoreCall
                 ELSE /\ store' = cosmos_create_conversation(store, id, user_id(r), t.value)
                      /\ uuids' = uuids + 1
                      /\ lastCall' = StoreCall(s, "create_conversation", user_id(r),
                                               {ConvRec(id, user_id(r), t.value)})
                      /\ SetReq(s, [r EXCEPT !.conversation_id = id, !.history_title = t.value,
                                             !.pc = "append"])
     ELSE SetReq(s, [r EXCEPT !.pc = "append"]) /\ NoStoreCall
  /\ HFrame

\* add_conversation(), lines 452-476
add_conversation_append(s) ==
  LET r == hreq[s] IN
  /\ r.op = "generate" /\ r.pc = "append"
  /\ IF Len(r.messages) > 0 /\ LastMsg(r).role = "user"
       THEN LET uuid == FreshId(uuids + 1)
                found == ConversationFound(store, user_id(r), r.conversation_id)
            IN /\ store' = cosmos_create_message(store, uuid, r.conversation_id, user_id(r), LastMsg(r))
               /\ uuids' = uuids + 1
               /\ lastCall' = StoreCall(s, "create_message", user_id(r),
                                        cosmos_get_conversation(store, user_id(r), r.conversation_id)
                                          \cup cosmos_get_messages(store', user_id(r), r.conversation_id))
               /\ IF ~found
                    THEN SetReq(s, Respond(r, 500, "Conversation not found for the given conversation ID", {}))
                  ELSE \E chat_ok \in BOOLEAN :
                         SetReq(s, IF chat_ok THEN Respond(r, 200, "chat", {})
                                   ELSE Respond(r, 500, "str(ex)", {}))
     ELSE SetReq(s, Respond(r, 500, "No user message found", {})) /\ NoStoreCall
  /\ HFrame

\* update_conversation(), lines 480-502
update_conversation(s) ==
  LET r == hreq[s] IN
  /\ r.op = "update" /\ r.pc = "start"
  /\ IF NotConfigured
       THEN SetReq(s, Respond(r, 500, "CosmosDB is not configured or not working", {})) /\ NoStoreCall
     ELSE IF r.conversation_id = NoId
       THEN SetReq(s, Respond(r, 500, "No conversation_id found", {})) /\ NoStoreCall
     ELSE IF ~(Len(r.messages) > 0 /\ LastMsg(r).role = "assistant")
       THEN SetReq(s, Respond(r, 500, "No bot messages found", {})) /\ NoStoreCall
     ELSE IF Len(r.messages) > 1 /\ r.messages[Len(r.messages) - 1].role = "tool"
       THEN /\ store' = cosmos_create_message(store, FreshId(uuids + 1), r.conversation_id, user_id(r),
                                              r.messages[Len(r.messages) - 1])
            /\ uuids' = uuids + 1
            /\ lastCall' = StoreCall(s, "create_message", user_id(r),
                                     cosmos_get_conversation(store, user_id(r), r.conversation_id)
                                       \cup cosmos_get_messages(store', user_id(r), r.conversation_id))
            /\ SetReq(s, [r EXCEPT !.pc = "final"])
     ELSE SetReq(s, [r EXCEPT !.pc = "final"]) /\ NoStoreCall
  /\ HFrame

\* uuid=messages[-1]["id"], line 504: the final message keeps its own id
\* (n is the number of the next fresh id, which it does not take)
FinalMessageIdFresh(r, n) == FreshId(n)
FinalMessageId(r, n) == LastMsg(r).id

\* update_conversation(), lines 503-513
update_conversation_final(s) ==
  LET r == hreq[s] IN
  /\ r.op = "update" /\ r.pc = "final"
  /\ store' = cosmos_create_message(store, FinalMessageId(r, uuids + 1), r.conversation_id, user_id(r),
                                    LastMsg(r))
  /\ lastCall' = StoreCall(s, "create_message", user_id(r),
                           cosmos_get_conversation(store, user_id(r), r.conversation_id)
                             \cup cosmos_get_messages(store', user_id(r), r.conversation_id))
  /\ SetReq(s, Respond(r, 200, "success", {}))
  /\ UNCHANGED uuids
  /\ HFrame

\* update_message(), lines 520-560
update_message(s) ==
  LET r == hreq[s] IN
  /\ r.op = "message_feedback" /\ r.pc = "start"
  /\ IF r.message_id = ""
       THEN SetReq(s, Respond(r, 400, "message_id is required", {})) /\ NoStoreCall
     ELSE IF r.message_feedback = ""
       THEN SetReq(s, Respond(r, 400, "message_feedback is required", {})) /\ NoStoreCall
     ELSE IF NotConfigured
       THEN SetReq(s, Respond(r, 500, "'NoneType' object has no attribute 'update_message_feedback'", {}))
            /\ NoStoreCall
     ELSE LET found == MessageOf(store, user_id(r), r.message_id) IN
          /\ store' = cosmos_update_message_feedback(store, user_id(r), r.message_id, r.message_feedback)
          /\ lastCall' = StoreCall(s, "update_message_feedback", user_id(r), found)
          /\ UNCHANGED uuids
          /\ IF found # {}
               THEN SetReq(s, Respond(r, 200, "Successfully updated message with feedback", {}))
             ELSE SetReq(s, Respond(r, 404, "Unable to update message", {}))
  /\ HFrame

\* delete_conversation(), lines 564-580
delete_conversation(s) ==
  LET r == hreq[s] IN
  /\ r.op = "delete" /\ r.pc = "start"
  /\ IF r.conversation_id = NoId
       THEN SetReq(s, Respond(r, 400, "conversation_id is required", {})) /\ NoStoreCall
     ELSE IF NotConfigured
       THEN SetReq(s, Respond(r, 500, "CosmosDB is not configured or not working", {})) /\ NoStoreCall
     ELSE /\ store' = cosmos_delete_messages(store, r.conversation_id, user_id(r))
          /\ lastCall' = StoreCall(s, "delete_messages", user_id(r), store \ store')
          /\ UNCHANGED uuids
          /\ SetReq(s, [r EXCEPT !.pc = "delete_conversation"])
  /\ HFrame

\* the status of the final return of delete_conversation(), lines 586-594:
\* the same whether or not the two store calls deleted anything
DeletedStatusIfFound(deleted) == IF deleted = {} THEN 404 ELSE 200
DeletedStatus(deleted) == 200

\* delete_conversation(), lines 582-594
delete_conversation_record(s) ==
  LET r == hreq[s] IN
  /\ r.op = "delete" /\ r.pc = "delete_conversation"
  /\ store' = cosmos_delete_conversation(store, user_id(r), r.conversation_id)
  /\ lastCall' = StoreCall(s, "delete_conversation", user_id(r), store \ store')
  /\ UNCHANGED uuids
  /\ SetReq(s, Respond(r, DeletedStatus(store \ store'), "Successfully deleted conversation and messages", {}))
  /\ HFrame

\* clear_messages(), lines 737-767
clear_messages(s) ==
  LET r == hreq[s] IN
  /\ r.op = "clear" /\ r.pc = "start"
  /\ IF r.conversation_id = NoId
       THEN SetReq(s, Respond(r, 400, "conversation_id is required", {})) /\ NoStoreCall
     ELSE IF NotConfigured
       THEN SetReq(s, Respond(r, 500, "CosmosDB is not configured or not working", {})) /\ NoStoreCall
     ELSE /\ store' = cosmos_delete_messages(store, r.conversation_id, user_id(r))
          /\ lastCall' = StoreCall(s, "delete_messages", user_id(r), store \ store')
          /\ UNCHANGED uuids
          /\ SetReq(s, Respond(r, 200, "Successfully deleted messages in conversation", {}))
  /\ HFrame

\* the exception leaves the handler: list, read and rename have no try block
Unhandled(r, text) == Respond(r, 500, "unhandled: " \o text, {})

\* delete_all_conversations(), lines 701-714
delete_all_conversations(s) ==
  LET r == hreq[s] IN
  /\ r.op = "delete_all" /\ r.pc = "start"
  /\ IF NotConfigured
       THEN SetReq(s, Respond(r, 500, "CosmosDB is not configured or not working", {})) /\ NoStoreCall
     ELSE LET conversations == cosmos_get_conversations(store, user_id(r)) IN
          /\ lastCall' = StoreCall(s, "get_conversations", user_id(r), conversations)
          /\ UNCHANGED <<store, uuids>>
          /\ IF conversations = {}
               THEN SetReq(s, Respond(r, 404, "No conversations were found", {}))
             ELSE SetReq(s, [r EXCEPT !.conversations = conversations, !.pc = "loop_messages"])
  /\ HFrame

\* delete_all_conversations(), lines 716-719: the next conversation's messages
delete_all_messages(s) ==
  LET r == hreq[s] IN
  /\ r.op = "delete_all" /\ r.pc = "loop_messages"
  /\ \E conversation_doc \in r.conversations :
       /\ store' = cosmos_delete_messages(store, conversation_doc.id, user_id(r))
       /\ lastCall' = StoreCall(s, "delete_messages", user_id(r), store \ store')
       /\ SetReq(s, [r EXCEPT !.conversation = {conversation_doc}, !.pc = "loop_conversation"])
  /\ UNCHANGED uuids
  /\ HFrame

\* delete_all_conversations(), lines 720-730: then the conversation itself
delete_all_conversation(s) ==
  LET r == hreq[s] IN
  /\ r.op = "delete_all" /\ r.pc = "loop_conversation"
  /\ \E conversation_doc \in r.conversation :
       /\ store' = cosmos_delete_conversation(store, user_id(r), conversation_doc.id)
       /\ lastCall' = StoreCall(s, "delete_conversation", user_id(r), store \ store')
       /\ IF r.conversations = {conversation_doc}
            THEN SetReq(s, [Respond(r, 200, "Successfully deleted conversation and messages for user", {})
                              EXCEPT !.conversations = {}, !.conversation = {}])
          ELSE SetReq(s, [r EXCEPT !.conversations = r.conversations \ {conversation_doc},
                                   !.conversation = {}, !.pc = "loop_messages"])
  /\ UNCHANGED uuids
  /\ HFrame

\* what /history/read shows of a stored message, lines 649-658
Project(rec) == [id |-> rec.id, role |-> rec.role, content |-> rec.text, feedback |-> rec.feedback]

\* list_conversations(), lines 600-615
list_conversations(s) ==
  LET r == hreq[s] IN
  /\ r.op = "list" /\ r.pc = "start"
  /\ IF NotConfigured
       THEN SetReq(s, Unhandled(r, "CosmosDB is not configured or not working")) /\ NoStoreCall
     ELSE LET conversations == cosmos_get_conversations(store, user_id(r)) IN
          /\ lastCall' = StoreCall(s, "get_conversations", user_id(r), conversations)
          /\ UNCHANGED <<store, uuids>>
          /\ \E is_list \in BOOLEAN :
               IF ~is_list
                 THEN SetReq(s, Respond(r, 404, "No conversations were found", {}))
               ELSE SetReq(s, Respond(r, 200, "conversations", conversations))
  /\ HFrame

\* get_conversation(), lines 618-643
get_conversation(s) ==
  LET r == hreq[s] IN
  /\ r.op = "read" /\ r.pc = "start"
  /\ IF r.conversation_id = NoId
       THEN SetReq(s, Respond(r, 400, "conversation_id is required", {})) /\ NoStoreCall
     ELSE IF NotConfigured
       THEN SetReq(s, Unhandled(r, "CosmosDB is not configured or not working")) /\ NoStoreCall
     ELSE LET conversation_doc == cosmos_get_conversation(store, user_id(r), r.conversation_id) IN
          /\ lastCall' = StoreCall(s, "get_conversation", user_id(r), conversation_doc)
          /\ UNCHANGED <<store, uuids>>
          /\ IF conversation_doc = {}
               THEN SetReq(s, Respond(r, 404, "Conversation was not found", {}))
             ELSE SetReq(s, [r EXCEPT !.conversation = conversation_doc, !.pc = "get_messages"])
  /\ HFrame

\* get_conversation(), lines 645-660
get_conversation_messages(s) ==
  LET r == hreq[s] IN
  /\ r.op = "read" /\ r.pc = "get_messages"
  /\ LET conversation_messages == cosmos_get_messages(store, user_id(r), r.conversation_id) IN
       /\ lastCall' = StoreCall(s, "get_messages", user_id(r), conversation_messages)
       /\ SetReq(s, Respond(r, 200, "messages", {Project(m) : m \in conversation_messages}))
  /\ UNCHANGED <<store, uuids>>
  /\ HFrame

\* `if not conversation:` of rename_conversation(), line 680
RenameNotFoundNever(conversation_doc) == FALSE
RenameNotFound(conversation_doc) == conversation_doc = {}

\* rename_conversation(), lines 663-693
rename_conversation(s) ==
  LET r == hreq[s] IN
  /\ r.op = "rename" /\ r.pc = "start"
  /\ IF r.conversation_id = NoId
       THEN SetReq(s, Respond(r, 400, "conversation_id is required", {})) /\ NoStoreCall
     ELSE IF NotConfigured
       THEN SetReq(s, Unhandled(r, "CosmosDB is not configured or not working")) /\ NoStoreCall
     ELSE LET conversation_doc == cosmos_get_conversation(store, user_id(r), r.conversation_id) IN
          /\ lastCall' = StoreCall(s, "get_conversation", user_id(r), conversation_doc)
          /\ UNCHANGED <<store, uuids>>
          /\ IF RenameNotFound(conversation_doc)
               THEN SetReq(s, Respond(r, 404, "Conversation was not found", {}))
             ELSE IF r.title = ""
               THEN SetReq(s, Respond(r, 400, "title is required", {}))
             ELSE SetReq(s, [r EXCEPT !.conversation = {[c EXCEPT !.text = r.title] : c \in conversation_doc},
                                      !.pc = "upsert"])
  /\ HFrame

\* rename_conversation(), lines 694-698
rename_conversation_upsert(s) ==
  LET r == hreq[s] IN
  /\ r.op = "rename" /\ r.pc = "upsert"
  /\ \E conversation_doc \in r.conversation :
       /\ store' = cosmos_upsert_conversation(store, conversation_doc)
       /\ lastCall' = StoreCall(s, "upsert_conversation", conversation_doc.userId, {conversation_doc})
       /\ SetReq(s, Respond(r, 200, "updated_conversation", {conversation_doc}))
  /\ UNCHANGED uuids
  /\ HFrame

\* ensure_cosmos(), lines 770-807
ensure_cosmos(s) ==
  LET r == hreq[s] IN
  /\ r.op = "ensure" /\ r.pc = "start"
  /\ \E chat_history \in BOOLEAN, outcome \in {"ok", "err", "down", "Invalid credentials"} :
       IF ~chat_history
         THEN SetReq(s, Respond(r, 404, "CosmosDB is not configured", {})) /\ NoStoreCall
       ELSE IF NotConfigured
         THEN SetReq(s, Respond(r, 500, "CosmosDB is not working", {})) /\ NoStoreCall
       ELSE /\ lastCall' = StoreCall(s, "ensure", "", {})
            /\ UNCHANGED <<store, uuids>>
            /\ SetReq(s, CASE outcome = "ok" -> Respond(r, 200, "CosmosDB is configured and working", {})
                           [] outcome = "err" -> Respond(r, 422, "err", {})
                           [] outcome = "down" -> Respond(r, 500, "CosmosDB is not configured or not working", {})
                           [] OTHER -> Respond(r, 401, "Invalid credentials", {}))
  /\ HFrame

HistNext ==
  \/ init_client
  \/ init_set_ready
  \/ \E s \in Slots : HReceive(s)
  \/ \E s \in Slots : await_cosmos_db_ready(s)
  \/ \E s \in Slots : add_conversation(s)
  \/ \E s \in Slots : add_conversation_append(s)
  \/ \E s \in Slots : update_conversation(s)
  \/ \E s \in Slots : update_conversation_final(s)
  \/ \E s \in Slots : update_message(s)
  \/ \E s \in Slots : delete_conversation(s)
  \/ \E s \in Slots : delete_conversation_record(s)
  \/ \E s \in Slots : clear_messages(s)
  \/ \E s \in Slots : delete_all_conversations(s)
  \/ \E s \in Slots : delete_all_messages(s)
  \/ \E s \in Slots : delete_all_conversation(s)
  \/ \E s \in Slots : list_conversations(s)
  \/ \E s \in Slots : get_conversation(s)
  \/ \E s \in Slots : get_conversation_messages(s)
  \/ \E s \in Slots : rename_conversation(s)
  \/ \E s \in Slots : rename_conversation_upsert(s)
  \/ \E s \in Slots : ensure_cosmos(s)

SpecHist == InitHist /\ [][HistNext]_vars

ConvNext ==
  \/ ConvCompose
  \/ ConvReceive
  \/ conversation
  \/ conv_extract
  \/ conv_auth
  \/ reset_init_graph
  \/ reset_patch
  \/ conv_log_ok
  \/ conv_respond_ok
  \/ conv_except
  \/ conv_respond_failed
  \/ conversation_internal

SpecConv == Init /\ [][ConvNext]_vars

(***************************************************************************)
(* Properties of the /conversation router.                                 *)
(***************************************************************************)
HasCall(op) == \E i \in DOMAIN calls : calls[i].op = op
IsChatCall(c) == c.op \in {"stream_chat_request", "complete_chat_request"}
Principal(req) == IF req.headers = NoPrincipal THEN PyNone ELSE PyStr(<<req.headers>>)
FailedPatch(c) == c.op = "patch" /\ (c.raised \/ c.status # HTTP_NO_CONTENT)
GoodPatch(c) == c.op = "patch" /\ ~c.raised /\ c.status = HTTP_NO_CONTENT
\* the request has a last message with text content
HasLastText == request.is_json /\ request.body.messages # <<>> /\ LastContent(request).t = "str"

\* C1: when a username was resolved and it differs from the authenticated
\* principal id, or there is no authenticated principal, the directory is
\* never called and the response is the decline message.
C1_MismatchDeclines ==
  (username.t = "str" /\ username.v # <<>> /\ Principal(request) # username)
    => /\ ~HasCall("patch")
       /\ ~HasCall("init_graph_client")
       /\ (cresp # NoResponse => cresp = Assistant("decline", NoPassword))
       /\ (cpc = "done" => cresp # NoResponse)

C1_Witness ==
  /\ cpc = "done"
  /\ username = PyStr(<<"alice">>)
  /\ request.headers = "bob"
  /\ cresp = Assistant("decline", NoPassword)

\* C2: when the directory patch throws or answers anything but 204, no
\* response carries a credential, the response is the apology, and the
\* failure audit record for the patched username precedes the response.
C2_FailedPatchAudited ==
  \A i \in DOMAIN calls :
    FailedPatch(calls[i]) =>
      /\ cresp.password = NoPassword
      /\ (cresp # NoResponse =>
            /\ cresp = Assistant("apology", NoPassword)
            /\ \E j \in (i + 1)..Len(calls) :
                 /\ calls[j].op = "log_failed_password_reset_attempt"
                 /\ calls[j].username = calls[i].username
                 /\ calls[j].username = username)
      /\ (cpc = "done" => cresp # NoResponse)

C2_Witness ==
  /\ cpc = "done"
  /\ \E i \in DOMAIN calls : calls[i].op = "patch" /\ ~calls[i].raised /\ calls[i].status = 200
  /\ cresp = Assistant("apology", NoPassword)

\* C3: when the directory patch answers 204, the success audit record with
\* the patched username precedes the response, the response carries exactly
\* the 16-character credential sent in the patch, and no response carries a
\* credential on any other path.
C3_SuccessCredential ==
  /\ \A i \in DOMAIN calls :
       GoodPatch(calls[i]) =>
         /\ (cresp # NoResponse =>
               /\ \E j \in (i + 1)..Len(calls) :
                    calls[j].op = "log_password_reset" /\ calls[j].username = calls[i].username
               /\ cresp = Assistant("success", calls[i].password)
               /\ Len(cresp.password) = 16)
         /\ (cpc = "done" => cresp # NoResponse)
  /\ (cresp.password # NoPassword => \E i \in DOMAIN calls : GoodPatch(calls[i]))

C3_Witness ==
  /\ cpc = "done"
  /\ \E i \in DOMAIN calls : GoodPatch(calls[i]) /\ calls[i].username = PyStr(<<"alice">>)
  /\ Len(cresp.password) = 16
  /\ HasCall("log_password_reset")

\* C4: every apology of the reset flow is preceded by a failure audit
\* record, also when username resolution raised.
C4_AuditOnEveryException ==
  cresp = Assistant("apology", NoPassword) => HasCall("log_failed_password_reset_attempt")

\* C5: when username resolution returns None or the empty string, the
\* response is the clarification request and the handler has called
\* neither the directory, nor the authentication lookup, nor an audit sink.
C5_NoUsernameClarifies ==
  (username = PyNone \/ username = PyStr(<<>>))
    => /\ cpc = "done"
       /\ cresp = Assistant("clarify", NoPassword)
       /\ \A i \in DOMAIN calls : calls[i].op = "extract_username"

C5_Witness ==
  /\ cpc = "done"
  /\ username = PyStr(<<>>)
  /\ cresp = Assistant("clarify", NoPassword)

\* C6: dispatch on the lower-cased last message: "weather in" goes to the
\* weather adapter, else "reset my password" to the reset flow, else the
\* general chat flow; exactly one branch handles the request.
C6_DispatchPrecedence ==
  (cpc = "done" /\ HasLastText) =>
    IF IsWeather(request)
      THEN HasCall("get_weather") /\ ~HasCall("extract_username") /\ \A i \in DOMAIN calls : ~IsChatCall(calls[i])
    ELSE IF IsReset(request)
      THEN HasCall("extract_username") /\ ~HasCall("get_weather") /\ \A i \in DOMAIN calls : ~IsChatCall(calls[i])
    ELSE (\E i \in DOMAIN calls : IsChatCall(calls[i])) /\ ~HasCall("get_weather") /\ ~HasCall("extract_username")

\* C7: a last message with neither phrase is forwarded to the general chat
\* flow with the body as received, and nothing else is called.
C7_ForwardUnmodified ==
  (HasLastText /\ ~IsWeather(request) /\ ~IsReset(request)) =>
    /\ \A i \in DOMAIN calls : IsChatCall(calls[i]) /\ calls[i].body = request.body
    /\ (cpc = "done" => Len(calls) = 1 /\ cresp # NoResponse)

C7_Witness ==
  /\ cpc = "done"
  /\ HasLastText
  /\ ~IsWeather(request) /\ ~IsReset(request)
  /\ Len(request.body.messages) = 2
  /\ Len(calls) = 1 /\ IsChatCall(calls[1]) /\ calls[1].body = request.body

(***************************************************************************)
(* Properties of the history endpoints and of the readiness gate.          *)
(***************************************************************************)
HistoryStoreOps ==
  {"create_conversation", "create_message", "update_message_feedback", "delete_messages",
   "delete_conversation", "get_conversations", "get_conversation", "get_messages",
   "upsert_conversation"}

\* C8: every call a history handler makes on the store is keyed by the
\* principal id of the request it serves and touches only that user's
\* documents; a step changes only documents of the user whose request made
\* the call, and a response shows only documents of the requesting user.
C8_Keyed ==
  lastCall.op \in HistoryStoreOps =>
    /\ lastCall.user_id = hreq[lastCall.slot].user
    /\ \A d \in lastCall.touched : d.userId = hreq[lastCall.slot].user

C8_StepOwned ==
  /\ (store' # store =>
        /\ lastCall'.op \in HistoryStoreOps
        /\ \A d \in (store \ store') \cup (store' \ store) : d.userId = hreq[lastCall'.slot].user)
  /\ \A s \in Slots :
       (hreq'[s].resp # hreq[s].resp /\ hreq[s].pc # "free") =>
         \A x \in hreq'[s].resp.data :
           \E d \in lastCall'.touched :
             /\ lastCall'.slot = s
             /\ d.userId = hreq[s].user
             /\ (x = d \/ x = Project(d))

\* C8: for every history endpoint and every sequence of requests, each store
\* call is keyed by the requesting user's principal id, so no request
\* returns, modifies or deletes a document owned by another user.
C8_UserScoped == [](C8_Keyed) /\ [][C8_StepOwned]_vars

\* alice asked to delete bob's conversation c2 and got the success answer,
\* after bob's request had read his own conversation
C8_Witness ==
  /\ \E s \in Slots :
       /\ hreq[s].op = "delete" /\ hreq[s].user = "alice" /\ hreq[s].conversation_id = "c2"
       /\ hreq[s].pc = "done" /\ hreq[s].resp.status = 200
  /\ \E s \in Slots :
       /\ hreq[s].op = "read" /\ hreq[s].user = "bob" /\ hreq[s].conversation_id = "c2"
       /\ hreq[s].pc = "done" /\ hreq[s].resp.data # {}
  /\ lastCall.op = "get_messages"

\* C9: cosmos_db_ready is set once, after the client handle was assigned by
\* a successful initialization, and stays set; until it is set no history
\* handler has left its wait, answered, or called the store.
C9_SetAfterInit ==
  cosmos_db_ready => init_pc = "ready" /\ ~init_error /\ cosmos_conversation_client # "unset"

C9_GateHolds ==
  ~cosmos_db_ready =>
    /\ lastCall = NoCall
    /\ store \in InitStores
    /\ \A s \in Slots : hreq[s].pc \in {"free", "wait"} /\ hreq[s].resp = NoHResp

C9_SetOnce ==
  /\ (cosmos_db_ready => cosmos_db_ready')
  /\ (cosmos_db_ready' /\ ~cosmos_db_ready => init_pc = "assigned" /\ init_pc' = "ready")
  /\ (init_pc = "ready" => init_pc' = "ready")

\* C9: the readiness event is set at most once, only after a successful
\* initialization assigned the client, is never cleared, and gates every
\* history handler in every interleaving of start-up and requests.
C9_ReadinessGate == [](C9_SetAfterInit /\ C9_GateHolds) /\ [][C9_SetOnce]_vars

\* the event is set, one request has passed the gate, called the store and
\* answered, and another one is still at its wait
C9_Witness ==
  /\ cosmos_db_ready
  /\ lastCall.op \in HistoryStoreOps
  /\ \E s \in Slots : hreq[s].pc = "done" /\ hreq[s].resp.status = 200
  /\ \E s \in Slots : hreq[s].pc = "wait"

\* C10: once store initialization has failed the event is never set, and no
\* history request ever leaves its wait: none answers, none calls the store.
C10_Pending ==
  init_error =>
    /\ ~cosmos_db_ready
    /\ init_pc = "failed"
    /\ lastCall = NoCall
    /\ \A s \in Slots : hreq[s].pc \in {"free", "wait"} /\ hreq[s].resp = NoHResp

\* C10: after a failed store initialization the event stays unset for good
\* and every history request stays pending: no response, no store call.
C10_FailedInitBlocks == [](C10_Pending) /\ [][init_error => init_error']_vars

\* the initialization has failed and every slot holds a request at its wait,
\* among them the readiness probe

C10_Witness ==
  /\ init_error
  /\ \A s \in Slots : hreq[s].pc = "wait"
  /\ \E s \in Slots : hreq[s].op = "ensure"

\* ---------------------------------------------------------------------------
\* /history/generate with an empty message list

EmptyGenerate(s) ==
  /\ hreq[s].op = "generate"
  /\ hreq[s].messages = <<>>
  /\ hreq[s].pc = "done"
  /\ cosmos_conversation_client = "client"

\* C11: with a configured store, POST /history/generate with an empty message
\* list always answers the error "No user message found" and never succeeds,
\* whether a conversation id is supplied or not and whether the title
\* completion succeeds or fails.
C11_EmptyListNoUserMessage ==
  \A s \in Slots :
    EmptyGenerate(s) =>
      /\ hreq[s].resp.status = 500
      /\ hreq[s].resp.text = "No user message found"

\* the part of C11 the code keeps: an empty message list never succeeds
C11_EmptyListNeverSucceeds ==
  \A s \in Slots : EmptyGenerate(s) => hreq[s].resp.status >= 400

\* ---------------------------------------------------------------------------
\* /history/rename of a conversation the store does not return for the user

\* the rename request in slot s is about to fetch a conversation that the
\* store does not hold for the requesting user
RenameOfMissing(s) ==
  /\ hreq[s].op = "rename" /\ hreq[s].pc = "start"
  /\ hreq[s].conversation_id # NoId
  /\ ~NotConfigured
  /\ cosmos_get_conversation(store, user_id(hreq[s]), hreq[s].conversation_id) = {}

\* such a fetch is answered 404 with an empty body, whatever the title, and
\* the step leaves the store as it was
C12_MissingIs404 ==
  \A s \in Slots :
    (RenameOfMissing(s) /\ hreq'[s] # hreq[s]) =>
      /\ hreq'[s].pc = "done"
      /\ hreq'[s].resp.status = 404
      /\ hreq'[s].resp.data = {}
      /\ store' = store

\* a rename reaches its upsert only with a non-empty title and a fetched
\* conversation of the requesting user under the requested id
C12_UpsertGuarded ==
  \A s \in Slots :
    (hreq[s].op = "rename" /\ hreq[s].pc = "upsert") =>
      /\ hreq[s].title # ""
      /\ hreq[s].conversation # {}
      /\ \A c \in hreq[s].conversation :
           /\ c.type = "conversation"
           /\ c.userId = user_id(hreq[s])
           /\ c.id = hreq[s].conversation_id

\* the store is upserted only by a rename standing at its upsert, and no
\* rename response carries a document of another user
C12_UpsertOnlyThere ==
  (lastCall' # lastCall /\ lastCall'.op = "upsert_conversation") =>
    /\ hreq[lastCall'.slot].op = "rename"
    /\ hreq[lastCall'.slot].pc = "upsert"
C12_NoLeak ==
  \A s \in Slots :
    hreq[s].op = "rename" =>
      \A c \in hreq[s].resp.data : c.userId = user_id(hreq[s])

\* C12: POST /history/rename with a conversation id that the store does not
\* return for the requesting user answers 404 whatever title is supplied,
\* upserts nothing and returns no field of another user's conversation; an
\* upsert happens only after a successful ownership-filtered fetch and a
\* non-empty title.
C12_RenameNotOwned ==
  /\ [](C12_UpsertGuarded /\ C12_NoLeak)
  /\ [][C12_MissingIs404 /\ C12_UpsertOnlyThere]_vars

\* alice has asked to rename bob's conversation with a title: answered 404,
\* and bob's conversation still carries its title
C12_Witness ==
  \E s \in Slots :
    /\ hreq[s].op = "rename" /\ hreq[s].pc = "done"
    /\ hreq[s].user = "alice" /\ hreq[s].conversation_id = "c2" /\ hreq[s].title = "renamed"
    /\ hreq[s].resp.status = 404
    /\ lastCall = StoreCall(s, "get_conversation", "alice", {})
    /\ ConvRec("c2", "bob", "second") \in store

\* ---------------------------------------------------------------------------
\* DELETE /history/delete, called twice

\* both slots hold the same delete call: same user, same non-empty id
SameDelete(s1, s2) ==
  /\ s1 # s2
  /\ hreq[s1].op = "delete" /\ hreq[s2].op = "delete"
  /\ hreq[s1].user = hreq[s2].user
  /\ hreq[s1].conversation_id = hreq[s2].conversation_id
  /\ hreq[s1].conversation_id # NoId

\* the two calls get the same status and the same body
C13_SameResponse ==
  \A s1, s2 \in Slots :
    (SameDelete(s1, s2) /\ hreq[s1].pc = "done" /\ hreq[s2].pc = "done") =>
      hreq[s1].resp = hreq[s2].resp

\* every step the second call takes after the first one has answered leaves
\* the store as the first call left it
C13_SecondKeepsStore ==
  \A s1, s2 \in Slots :
    (SameDelete(s1, s2) /\ hreq[s1].pc = "done" /\ hreq'[s2] # hreq[s2]) =>
      store' = store

\* C13: DELETE /history/delete is idempotent: called twice in sequence with
\* the same non-empty conversation id, for any store state and any user, it
\* answers the same status and body both times, and the store after the
\* second call equals the store after the first.
C13_DeleteIdempotent == [](C13_SameResponse) /\ [][C13_SecondKeepsStore]_vars

\* alice has deleted her conversation c1 twice: both calls answered 200, the
\* last store call found nothing to delete, and only bob's documents remain
C13_Witness ==
  \E s1, s2 \in Slots :
    /\ SameDelete(s1, s2)
    /\ hreq[s1].user = "alice" /\ hreq[s1].conversation_id = "c1"
    /\ hreq[s1].pc = "done" /\ hreq[s2].pc = "done"
    /\ hreq[s1].resp.status = 200 /\ hreq[s2].resp.status = 200
    /\ lastCall = StoreCall(s2, "delete_conversation", "alice", {})
    /\ store = {d \in SeedStore : d.userId = "bob"}

\* ---------------------------------------------------------------------------
\* POST /history/update: what is persisted, and in which order

\* the request's last message is the assistant's, and it names a conversation
UpdateAccepted(r) ==
  /\ r.conversation_id # NoId
  /\ Len(r.messages) > 0 /\ LastMsg(r).role = "assistant"
HasToolBefore(r) ==
  Len(r.messages) > 1 /\ r.messages[Len(r.messages) - 1].role = "tool"
MessageIds(r) == {r.messages[i].id : i \in 1..Len(r.messages)}

\* the first step of an accepted update persists the tool message, under a
\* fresh id, when there is one, and nothing otherwise; never the final message
C14_ToolFirst ==
  \A s \in Slots :
    (hreq[s].op = "update" /\ hreq[s].pc = "start" /\ hreq'[s].pc = "final") =>
      /\ UpdateAccepted(hreq[s])
      /\ hreq'[s].resp = NoHResp
      /\ IF HasToolBefore(hreq[s])
           THEN /\ lastCall' = StoreCall(s, "create_message", user_id(hreq[s]), lastCall'.touched)
                /\ uuids' = uuids + 1
                /\ \A d \in store' \ store :
                     /\ d.type = "message" /\ d.role = "tool"
                     /\ d.id = FreshId(uuids') /\ d.id \notin MessageIds(hreq[s])
                     /\ d.conversationId = hreq[s].conversation_id
                /\ ConversationFound(store, user_id(hreq[s]), hreq[s].conversation_id)
                     => store' \ store # {}
         ELSE store' = store /\ lastCall' = lastCall

\* the second step persists the final assistant message under its own id
\* and answers success
C14_FinalOwnId ==
  \A s \in Slots :
    (hreq[s].op = "update" /\ hreq[s].pc = "final" /\ hreq'[s] # hreq[s]) =>
      /\ hreq'[s].pc = "done" /\ hreq'[s].resp.status = 200
      /\ lastCall' = StoreCall(s, "create_message", user_id(hreq[s]), lastCall'.touched)
      /\ uuids' = uuids
      /\ \A d \in store' \ store :
           /\ d.type = "message" /\ d.role = "assistant"
           /\ d.id = LastMsg(hreq[s]).id
           /\ d.conversationId = hreq[s].conversation_id
      /\ ConversationFound(store, user_id(hreq[s]), hreq[s].conversation_id)
           => MsgRec(LastMsg(hreq[s]).id, user_id(hreq[s]), hreq[s].conversation_id, LastMsg(hreq[s]))
                \in store'

\* a request with no conversation id, an empty message list or a last
\* message that is not the assistant's is answered with an error by a step
\* that calls the store not at all
C14_ErrorPersistsNothing ==
  \A s \in Slots :
    (hreq[s].op = "update" /\ hreq[s].pc = "start" /\ ~UpdateAccepted(hreq[s])
       /\ hreq'[s] # hreq[s]) =>
      /\ hreq'[s].pc = "done" /\ hreq'[s].resp.status = 500
      /\ store' = store /\ lastCall' = lastCall /\ uuids' = uuids

\* only an accepted update stands before its final call or answers success
C14_OnlyAccepted ==
  \A s \in Slots :
    (hreq[s].op = "update" /\ (hreq[s].pc = "final" \/ hreq[s].resp.status = 200)) =>
      UpdateAccepted(hreq[s])

\* C14: POST /history/update persists a tool message in second-to-last
\* position first, under a fresh id, and then the final assistant message
\* under the message's own id; with an empty message list, a last message
\* that is not the assistant's, or no conversation id, it answers an error
\* and persists nothing.
C14_UpdateOrder ==
  /\ [](C14_OnlyAccepted)
  /\ [][C14_ToolFirst /\ C14_FinalOwnId /\ C14_ErrorPersistsNothing]_vars

\* alice's update of c1 with a tool message and the assistant's answer has
\* succeeded: the tool message is stored under a fresh id, the answer under
\* its own
C14_Witness ==
  \E s \in Slots :
    /\ hreq[s].op = "update" /\ hreq[s].pc = "done" /\ hreq[s].resp.status = 200
    /\ hreq[s].user = "alice" /\ hreq[s].conversation_id = "c1"
    /\ hreq[s].messages = <<ToolMsg, BotMsg>>
    /\ MsgRec(FreshId(1), "alice", "c1", ToolMsg) \in store
    /\ MsgRec(BotMsg.id, "alice", "c1", BotMsg) \in store
    /\ lastCall.slot = s

\* ---------------------------------------------------------------------------
\* exceptions that leave a handler

\* the answer of a history request whose handler let the exception escape
Escaped(r) == r.pc = "done" /\ r.resp = Unhandled(r, "CosmosDB is not configured or not working").resp

\* C15: every exception raised while serving any HTTP handler is caught
\* inside the handler and answered with a JSON {error: message} body and an
\* error status: none propagates out of a handler, neither the
\* unconfigured-store error of list, read and rename nor the error of a
\* /conversation request with an empty message list.
C15_AllCaught ==
  /\ cresp.role # "unhandled"
  /\ \A s \in Slots : ~Escaped(hreq[s])

\* where the exception escapes: list, read and rename on an unconfigured store
C15_EscapesOnlyThere ==
  \A s \in Slots : Escaped(hreq[s]) => NotConfigured /\ hreq[s].op \in {"list", "read", "rename"}

\* ---------------------------------------------------------------------------
\* generate_title on the histories /history/generate passes to it

\* the generate request in slot s is about to call generate_title: it has
\* passed the gate, the store is configured and it names no conversation
CallsGenerateTitle(s) ==
  /\ hreq[s].op = "generate" /\ hreq[s].pc = "start"
  /\ ~NotConfigured
  /\ hreq[s].conversation_id = NoId

\* C16: generate_title always returns a title and never raises: when the
\* completion call fails it returns the content of the second-to-last
\* message of the history, for every history /history/generate can pass to
\* it, a single first user message included.
C16_TitleAlwaysReturned ==
  \A s \in Slots :
    CallsGenerateTitle(s) =>
      \A completion_ok \in BOOLEAN :
        ~generate_title(hreq[s].messages, completion_ok).raised

\* what the code keeps: with two messages or more, or a completion that
\* succeeds, a title is returned, the content of the second-to-last message
\* on failure
C16_TitleOfLongerHistory ==
  \A s \in Slots :
    (CallsGenerateTitle(s) /\ Len(hreq[s].messages) >= 2) =>
      /\ ~generate_title(hreq[s].messages, TRUE).raised
      /\ generate_title(hreq[s].messages, FALSE)
           = [raised |-> FALSE, value |-> hreq[s].messages[Len(hreq[s].messages) - 1].content]

\* ---------------------------------------------------------------------------
\* delete against appends to the same conversation

\* slot a holds an append (update or generate) to the conversation that the
\* delete in slot d names, for the same user
AppendsTo(a, d) ==
  /\ a # d
  /\ hreq[d].op = "delete" /\ hreq[d].conversation_id # NoId
  /\ hreq[a].op \in {"update", "generate"}
  /\ hreq[a].user = hreq[d].user
  /\ hreq[a].conversation_id = hreq[d].conversation_id
  /\ hreq[a].history_title = ""

\* C17: in every interleaving of a DELETE /history/delete with appends to the
\* same conversation of the same user, once the delete has answered success
\* and every request has completed, the store holds neither the conversation
\* record nor any message of that conversation.
C17_DeleteCascades ==
  \A a, d \in Slots :
    (AppendsTo(a, d) /\ hreq[a].pc = "done" /\ hreq[d].pc = "done" /\ hreq[d].resp.status = 200) =>
      /\ cosmos_get_conversation(store, user_id(hreq[d]), hreq[d].conversation_id) = {}
      /\ cosmos_get_messages(store, user_id(hreq[d]), hreq[d].conversation_id) = {}

\* what the code keeps: the conversation record itself is gone
C17_RecordDeleted ==
  \A a, d \in Slots :
    (AppendsTo(a, d) /\ hreq[a].pc = "done" /\ hreq[d].pc = "done" /\ hreq[d].resp.status = 200) =>
      cosmos_get_conversation(store, user_id(hreq[d]), hreq[d].conversation_id) = {}

\* ---------------------------------------------------------------------------
\* POST /history/generate answering an error

\* the errors of add_conversation() that the request's own content causes
GenerateErrors == {"No user message found", "Conversation not found for the given conversation ID"}

\* the generate request in slot s answers one of these errors in this step
GenerateFails(s) ==
  /\ hreq[s].op = "generate" /\ hreq[s].pc # "done"
  /\ hreq'[s].pc = "done"
  /\ hreq'[s].resp.status = 500 /\ hreq'[s].resp.text \in GenerateErrors

\* the conversation record the request in slot s has created, if any: the
\* title is generated only for a conversation the handler creates
CreatedConversation(s) ==
  IF hreq[s].history_title = "" THEN {}
  ELSE cosmos_get_conversation(store', user_id(hreq[s]), hreq[s].conversation_id)

\* the step that answers the error leaves behind neither the conversation
\* record the request created nor a message of its own
C18_ErrorStep ==
  \A s \in Slots :
    GenerateFails(s) => (CreatedConversation(s) = {} /\ store' \ store = {})

\* C18: whenever POST /history/generate answers an error (empty message
\* list, last message not the user's, conversation not found), no
\* conversation record and no message created by that request remains in
\* the store.
C18_ErrorLeavesNothing == [][C18_ErrorStep]_vars

\* what the code keeps: a failing request that named its conversation
\* leaves the store as it was
C18_NamedStep ==
  \A s \in Slots :
    (GenerateFails(s) /\ hreq[s].history_title = "") => store' = store
C18_NamedLeavesNothing == [][C18_NamedStep]_vars

====
